---- MODULE Spec2Model ----
(***************************************************************************)
(* ffpb: a progress bar for ffmpeg.  The model follows src/ffpb.py: the    *)
(* ColoredProgressNotifier (line accumulator, fact extractors, prompt      *)
(* detection, progress estimator driving a tqdm bar) and main (spawn the   *)
(* encoder, read its diagnostic stream one byte at a time, translate the   *)
(* way the run ends into an exit code).                                    *)
(*                                                                         *)
(* Bytes are modelled as one-character strings; CR, LF and BadByte name    *)
(* the bytes 0x0D, 0x0A and 0xFF (0xFF decodes in no UTF-8 text).  A       *)
(* Python value that may be None is a sequence of length 0 (None) or 1.    *)
(* The platform is POSIX (os.name /= 'nt').                                *)
(***************************************************************************)
EXTENDS Integers, Sequences, FiniteSets, TLC

\* ---------------------------------------------------------------- bounds
\* fragments the encoder writes in one run
MaxFrags == 3
\* length of a chunk handed to the notifier in one call (SpecChunk)
MaxChunk == 3

\* ------------------------------------------------------- Python values
None == <<>>
Some(v) == <<v>>

CR == "CR"
LF == "LF"
BadByte == "xFF"

Digits == {"0", "1", "2", "3", "4", "5", "6", "7", "8", "9"}

\* int() of one decimal digit
DigitVal(c) ==
  CASE c = "0" -> 0 [] c = "1" -> 1 [] c = "2" -> 2 [] c = "3" -> 3
    [] c = "4" -> 4 [] c = "5" -> 5 [] c = "6" -> 6 [] c = "7" -> 7
    [] c = "8" -> 8 [] c = "9" -> 9

\* int(b"dd")
RECURSIVE int(_)
int(s) == IF s = <<>> THEN 0 ELSE int(SubSeq(s, 1, Len(s) - 1)) * 10 + DigitVal(s[Len(s)])

\* bytes.decode(encoding): fails on a byte that is no text in the encoding,
\* otherwise yields the characters of the (ASCII) bytes
Decodable(b) == \A i \in 1..Len(b) : b[i] # BadByte
decode(b) == b

\* the line feed taken for the only terminator
OnlyLineFeed(a, b) == a = <<LF>>

\* a in b for bytes objects: a is a contiguous run of b (b"" is in everything)
BytesIn(a, b) ==
  \E i \in 0..(Len(b) - Len(a)) : \A k \in 1..Len(a) : b[i + k] = a[k]

EndsWith(b, suffix) ==
  /\ Len(b) >= Len(suffix)
  /\ SubSeq(b, Len(b) - Len(suffix) + 1, Len(b)) = suffix

\* ---------------------------------------------------------------- regexes
\* a pattern is a sequence of literal bytes and of the class \d
AnyDigit == "\\d"

MatchesAt(line, i, pat) ==
  /\ i + Len(pat) - 1 <= Len(line)
  /\ \A k \in 1..Len(pat) :
        IF pat[k] = AnyDigit THEN line[i + k - 1] \in Digits ELSE line[i + k - 1] = pat[k]

\* re.search: the leftmost position where the pattern matches, 0 when none
Search(line, pat) ==
  LET S == {a \in 1..Len(line) : MatchesAt(line, a, pat)}
  IN IF S = {} THEN 0 ELSE CHOOSE x \in S : \A j \in S : x <= j

_DURATION_RX ==
  <<"D","u","r","a","t","i","o","n",":"," ", AnyDigit, AnyDigit, ":", AnyDigit, AnyDigit, ":", AnyDigit, AnyDigit, ".", AnyDigit, AnyDigit>>

_PROGRESS_RX == <<"t","i","m","e","=", AnyDigit, AnyDigit, ":", AnyDigit, AnyDigit, ":", AnyDigit, AnyDigit, ".", AnyDigit, AnyDigit>>

\* the two alternatives of _FPS_RX, tried in this order at each position
_FPS_RX_decimal == <<AnyDigit, AnyDigit, ".", AnyDigit, AnyDigit, " ", "f", "p", "s">>

_FPS_RX == <<AnyDigit, AnyDigit, " ", "f", "p", "s">>

_SOURCE_RX_open == <<"f","r","o","m"," ","'">>

_SOURCE_RX_close == <<"'", ":">>

\* the hours scaled by 60 only
_seconds_flat(hours, minutes, seconds) ==
  int(hours) * 60 + int(minutes) * 60 + int(seconds)

_seconds(hours, minutes, seconds) ==
  (int(hours) * 60 + int(minutes)) * 60 + int(seconds)

\* the three groups of a match of _DURATION_RX or _PROGRESS_RX that starts at i
\* behind a prefix of n literal bytes
TimeGroups(line, i, n) ==
  << SubSeq(line, i + n, i + n + 1),
     SubSeq(line, i + n + 3, i + n + 4),
     SubSeq(line, i + n + 6, i + n + 7) >>

get_duration(line) ==
  LET i == Search(line, _DURATION_RX)
      g == TimeGroups(line, i, 10)
  IN IF i # 0 THEN Some(_seconds(g[1], g[2], g[3])) ELSE None

\* round(float(b"dd.dd")): to the nearest integer, a tie to the even one
round(whole, hundredths) ==
  IF hundredths < 50 THEN whole
  ELSE IF hundredths > 50 THEN whole + 1
  ELSE IF whole % 2 = 0 THEN whole ELSE whole + 1

get_fps(line) ==
  LET S == {a \in 1..Len(line) :
              MatchesAt(line, a, _FPS_RX_decimal) \/ MatchesAt(line, a, _FPS_RX)}
      i == CHOOSE x \in S : \A j \in S : x <= j
  IN IF S = {} THEN None
     ELSE IF MatchesAt(line, i, _FPS_RX_decimal)
          THEN Some(round(int(SubSeq(line, i, i + 1)), int(SubSeq(line, i + 3, i + 4))))
          ELSE Some(round(int(SubSeq(line, i, i + 1)), 0))

\* os.path.basename: what follows the last "/"
basename(path) ==
  LET S == {a \in 1..Len(path) : path[a] = "/"}
      last == IF S = {} THEN 0 ELSE CHOOSE x \in S : \A j \in S : j <= x
  IN SubSeq(path, last + 1, Len(path))

\* _SOURCE_RX = from '(.*)': the leftmost "from '" that some "':" follows with
\* no LF between them ("." matches no LF), then the last such "':" (".*" is greedy).
\* The result is <<i, j>>: the group is line[i+6 .. j-1]; <<0, 0>> when no match.
SourceMatch(line) ==
  LET Closes(a) == {b \in (a + 6)..Len(line) :
                      /\ MatchesAt(line, b, _SOURCE_RX_close)
                      /\ \A k \in (a + 6)..(b - 1) : line[k] # LF}
      S == {a \in 1..Len(line) : MatchesAt(line, a, _SOURCE_RX_open) /\ Closes(a) # {}}
      i == CHOOSE x \in S : \A k \in S : x <= k
      j == CHOOSE y \in Closes(i) : \A k \in Closes(i) : k <= y
  IN IF S = {} THEN <<0, 0>> ELSE <<i, j>>

\* get_source: [raised, value]; decoding the group may raise
get_source(line) ==
  LET m == SourceMatch(line)
      group == SubSeq(line, m[1] + 6, m[2] - 1)
  IN IF m[1] = 0 THEN [raised |-> "", value |-> None]
     ELSE IF ~Decodable(group) THEN [raised |-> "UnicodeDecodeError", value |-> None]
     ELSE [raised |-> "", value |-> Some(basename(decode(group)))]

\* ------------------------------------------------------------------ Colors
\* each escape sequence of class Colors is one element of a printed string
RESET == "ESC[0m"
BOLD == "ESC[1m"
WHITE == "ESC[37m"
GREEN == "ESC[32m"
BRIGHT_RED == "ESC[91m"
BRIGHT_GREEN == "ESC[92m"
BRIGHT_YELLOW == "ESC[93m"
BRIGHT_BLUE == "ESC[94m"
BRIGHT_CYAN == "ESC[96m"
BRIGHT_WHITE == "ESC[97m"

\* ------------------------------------------- ColoredProgressNotifier
\* the marker of an interactive prompt, b"[y/N] "
Marker == <<"[", "y", "/", "N", "]", " ">>

\* _supports_color on a POSIX system: self.file is a terminal
_supports_color(file_isatty) == file_isatty

\* the state of a notifier after __init__, file_isatty telling whether its file
\* is a terminal.  tqdm_calls counts the calls of self.tqdm.
__init__(use_colors_arg, file_isatty) ==
  [ lines |-> <<>>,
    line_acc |-> <<>>,
    duration |-> None,
    source |-> None,
    started |-> FALSE,
    pbar |-> None,
    fps |-> None,
    use_colors |-> (use_colors_arg /\ _supports_color(file_isatty)),
    tqdm_calls |-> 0 ]

\* a with block without cleanup: the bar is never closed
exit_without_close(self) == self

\* if self.pbar is not None: self.pbar.close()
__exit__(self) ==
  IF self.pbar # None
  THEN [self EXCEPT !.pbar = Some([self.pbar[1] EXCEPT !.closed = @ + 1])]
  ELSE self

_colorize_filename(self, filename) ==
  LET trimmed == IF Len(filename) > 30
                 THEN SubSeq(filename, 1, 27) \o <<".", ".", ".">>
                 ELSE filename
  IN IF ~self.use_colors THEN trimmed
     ELSE <<BRIGHT_CYAN, BOLD>> \o trimmed \o <<RESET>>

\* the buffer is copied into the history and kept
newline_keeps_buffer(self) ==
  [self EXCEPT !.lines = Append(@, self.line_acc)]

\* the buffer is cleared before it is copied into the history
newline_cleared_first(self) ==
  [self EXCEPT !.lines = Append(@, <<>>), !.line_acc = <<>>]

\* self.lines.append(bytes(self.line_acc)); self.line_acc = bytearray()
newline(self) ==
  [self EXCEPT !.lines = Append(@, self.line_acc), !.line_acc = <<>>]

\* the bar_format handed to tqdm when colours are used
ColoredBarFormat ==
  << BRIGHT_WHITE, "{desc}: ", BRIGHT_GREEN, "{percentage:3.0f}%", RESET, "|",
     BRIGHT_BLUE, "{bar}", RESET, "| ", WHITE, "{n_fmt}/{total_fmt}",
     BRIGHT_YELLOW, " [{elapsed}<{remaining}, {rate_fmt}]", RESET >>

\* the position set to the argument instead of moved by it
pbar_update_absolute(pbar, n) ==
  [pbar EXCEPT !.n = n, !.updates = Append(@, n)]

\* self.pbar.update(n): the bar's position moves by n, whatever its sign;
\* updates records the arguments of every call
pbar_update(pbar, n) ==
  [pbar EXCEPT !.n = @ + n, !.updates = Append(@, n)]

\* _get_progress_color((current / total) * 100): the percentage is compared with
\* 25, 50, 75 and 95 across the division (total is positive), which gives the
\* float comparison's answer: quarters and their products by 100 are exact,
\* (19 / 20) * 100 is 95.0, and any other ratio of two such integers is farther
\* from a boundary than the rounding error.  The strings are lists of escapes.
_get_progress_color(self, current, total) ==
  IF ~self.use_colors THEN <<>>
  ELSE IF 100 * current < 25 * total THEN <<BRIGHT_RED>>
  ELSE IF 100 * current < 50 * total THEN <<BRIGHT_YELLOW>>
  ELSE IF 100 * current < 75 * total THEN <<BRIGHT_BLUE>>
  ELSE IF 100 * current < 95 * total THEN <<BRIGHT_GREEN>>
  ELSE <<GREEN, BOLD>>

\* truth of an optional number in a condition: neither None nor 0
Truthy(o) == o # None /\ o[1] # 0

\* progress, lines 216-224: the unit, the position and the total of one update
\* the unit follows the duration instead of the fps
progress_unit_by_duration(self) ==
  IF self.duration # None THEN " frames" ELSE " seconds"

progress_unit(self) ==
  IF self.fps # None THEN " frames" ELSE " seconds"

progress_current(self, secs) ==
  IF self.fps # None THEN secs * self.fps[1] ELSE secs

\* a coloured bar counted in percent
progress_total_tinted(self) ==
  IF self.use_colors /\ Truthy(self.duration) THEN Some(100)
  ELSE IF self.fps # None /\ Truthy(self.duration)
  THEN Some(self.duration[1] * self.fps[1])
  ELSE self.duration

progress_total(self) ==
  IF self.fps # None /\ Truthy(self.duration)
  THEN Some(self.duration[1] * self.fps[1])
  ELSE self.duration

progress(self, line) ==
  LET i == Search(line, _PROGRESS_RX)
      g == TimeGroups(line, i, 5)
      total == progress_total(self)
      current == progress_current(self, _seconds(g[1], g[2], g[3]))
      unit == progress_unit(self)
      desc == IF self.use_colors /\ self.source # None /\ self.source[1] # <<>>
              THEN Some(_colorize_filename(self, self.source[1]))
              ELSE self.source
      created == [ desc |-> desc,
                   total |-> total,
                   unit |-> unit,
                   bar_format |-> IF self.use_colors THEN Some(ColoredBarFormat) ELSE None,
                   colour |-> IF self.use_colors THEN Some("green") ELSE None,
                   n |-> 0,
                   updates |-> <<>>,
                   closed |-> 0 ]
      bar == IF self.pbar = None THEN created ELSE self.pbar[1]
      \* line 259: color is assigned and never read
      color == _get_progress_color(self, current, total[1])
      tinted == IF Truthy(total) /\ self.use_colors
                THEN [bar EXCEPT !.colour = Some("green")]
                ELSE bar
  IN IF i = 0 THEN self
     ELSE [self EXCEPT !.pbar = Some(pbar_update(tinted, current - tinted.n)),
                       !.tqdm_calls = IF self.pbar = None THEN @ + 1 ELSE @]

\* notifier(char, stdin): [self, raised, printed, put].  char is a bytes
\* object; stdin is None or Some(queue); reply is what input() does if it is
\* called: Some(line) is the line typed, None an end of input (EOFError).  printed are the strings written to self.file, put the lines put
\* on the stdin queue, raised the exception that left the call ("" for none).
__call__(self, char, stdin, reply) ==
  IF BytesIn(char, <<CR, LF>>)
  THEN LET line == self.line_acc
           s0 == newline(self)
           s1 == IF s0.duration = None
                 THEN [s0 EXCEPT !.duration = get_duration(line)] ELSE s0
           src == get_source(line)
           s2 == IF s1.source = None THEN [s1 EXCEPT !.source = src.value] ELSE s1
           s3 == IF s2.fps = None THEN [s2 EXCEPT !.fps = get_fps(line)] ELSE s2
       IN IF s1.source = None /\ src.raised # ""
          THEN [self |-> s1, raised |-> src.raised, printed |-> <<>>, put |-> <<>>]
          ELSE [self |-> progress(s3, line), raised |-> "", printed |-> <<>>,
                put |-> <<>>]
  ELSE LET s0 == [self EXCEPT !.line_acc = @ \o char]
           prompt_text == decode(s0.line_acc)
           shown == IF self.use_colors
                    THEN <<BRIGHT_YELLOW, BOLD>> \o prompt_text \o <<RESET>>
                    ELSE prompt_text
       IN IF ~EndsWith(s0.line_acc, Marker)
          THEN [self |-> s0, raised |-> "", printed |-> <<>>, put |-> <<>>]
          ELSE IF ~Decodable(s0.line_acc)
          THEN [self |-> s0, raised |-> "UnicodeDecodeError", printed |-> <<>>,
                put |-> <<>>]
          ELSE IF stdin # None /\ reply = None
          THEN [self |-> s0, raised |-> "EOFError", printed |-> <<shown>>,
                put |-> <<>>]
          ELSE [self |-> newline(s0), raised |-> "", printed |-> <<shown>>,
                put |-> IF stdin # None THEN <<reply[1] \o <<LF>> >> ELSE <<>>]

DurationLine ==
  <<
    "D","u","r","a","t","i","o","n",":"," ","0","0",":","0","1",":","4","0",".","0","0" >>

Duration2Line ==
  <<
    "D","u","r","a","t","i","o","n",":"," ","0","0",":","0","0",":","5","0",".","0","0" >>

SourceLine ==
  <<
    "f","r","o","m"," ","'","c","l","i","p",".","m","p","4","'",":" >>

Source2Line ==
  <<
    "f","r","o","m"," ","'","a","/","b",".","m","k","v","'",":" >>

BadSourceLine ==
  <<
    "f","r","o","m"," ","'",BadByte,"'",":" >>

FpsLine ==
  <<
    "2","9",".","9","7"," ","f","p","s" >>

FrameLine ==
  <<
    "f","r","a","m","e","="," "," ","1","0"," ","f","p","s","="," ","2","5"," ",".",".",".",
    " ","t","i","m","e","=","0","0",":","0","0",":","1","0",".","0","0"," ",".",".","." >>

TimeLine ==
  <<
    "t","i","m","e","=","0","0",":","0","0",":","1","0",".","0","0" >>

Time2Line ==
  <<
    "t","i","m","e","=","0","0",":","0","0",":","0","5",".","0","0" >>

PromptLine ==
  <<
    "t","i","m","e","=","0","0",":","0","0",":","0","7",".","0","0"," ","O","v","e","r","w",
    "r","i","t","e","?"," ","[","y","/","N","]"," " >>


ExitingText ==
  <<"E","x","i","t","i","n","g",".">>

UnexpectedText ==
  <<"U","n","e","x","p","e","c","t","e","d"," ","e","x","c","e","p","t","i","o","n",":">>

\* ------------------------------------------------------------------- main
\* signal.SIGINT
SIGINT == 2

\* the exit codes the encoder may end with
ExitCodes == {0, 1}

\* what the encoder writes to its diagnostic stream in one write
Fragments ==
  { DurationLine \o <<LF>> \o SourceLine \o <<LF>>,
    Duration2Line \o <<CR>> \o Source2Line \o <<LF>>,
    BadSourceLine \o <<LF>>,
    FpsLine \o <<LF>>,
    FrameLine \o <<CR>>,
    TimeLine \o <<CR>>,
    Time2Line \o <<CR>>,
    PromptLine,
    <<LF>>,
    <<BadByte>> }

\* str(err): the message of an exception, one element naming the exception
str(err) == <<err>>

\* the stream is a terminal and colours were asked for
Colored(use_colors_arg, tty) == use_colors_arg /\ tty

\* print("Exiting.", file=stream), in colour on a terminal
ExitingMessage(colored) ==
  IF colored THEN <<BRIGHT_RED, BOLD>> \o ExitingText \o <<RESET, LF>>
  ELSE ExitingText \o <<LF>>

\* print("Unexpected exception:", err, file=stream), in colour on a terminal
UnexpectedMessage(colored, err) ==
  IF colored
  THEN <<BRIGHT_RED>> \o UnexpectedText \o <<" ", BRIGHT_WHITE>> \o str(err) \o <<RESET, LF>>
  ELSE UnexpectedText \o <<" ">> \o str(err) \o <<LF>>

\* print(error_msg, file=stream), in colour on a terminal
ErrorMessage(colored, error_msg) ==
  IF colored THEN <<BRIGHT_RED>> \o error_msg \o <<RESET, LF>>
  ELSE error_msg \o <<LF>>

VARIABLES
  use_colors,   \* main's argument use_colors
  isatty,       \* whether stream is a terminal
  pc,           \* where main is: "with", "loop", "returned", "raised"; "client"
                \* in SpecChunk, "extract" in SpecSeconds, "pair" in SpecColour
  notifier,     \* the ColoredProgressNotifier
  child,        \* the encoder: "none", "running", "closed" (stream closed), "exited"
  returncode,   \* p.returncode: None until p.poll() finds the encoder exited
  pipe,         \* bytes written by the encoder and not read yet
  written,      \* every byte the encoder wrote
  nfrags,       \* number of writes of the encoder
  out,          \* the last value of p.stderr.read(1): None before the first read
  fed,          \* every byte handed to the notifier by main
  stream,       \* the strings printed to stream, in order
  stdin_queue,  \* the lines put on the stdin queue handed to the notifier
  result,       \* the value main returned: None while it runs
  uncaught,     \* the exception that left main (or a direct call): "" for none
  chunk,        \* SpecChunk: the bytes handed over; SpecSeconds: the timestamp
  chunk_stdin,  \* SpecChunk: the stdin argument of the calls
  chunk_called, \* SpecChunk: the chunk was handed to notifier in one call;
                \* SpecSeconds: get_duration was applied
  ref,          \* SpecChunk: a second notifier, fed the same bytes one per call;
                \* SpecColour: a second notifier, made without colours
  ref_queue,    \* SpecChunk: the lines ref put on its stdin queue
  idx           \* SpecChunk: number of bytes fed to ref; SpecSeconds: number of
                \* calls of ref.progress

vars ==
  << use_colors, isatty, pc, notifier, child, returncode, pipe, written, nfrags,
     out, fed, stream, stdin_queue, result, uncaught, chunk, chunk_stdin,
     chunk_called, ref, ref_queue, idx >>

mainVars ==
  << child, returncode, pipe, written, nfrags, out, fed, result >>

chunkVars == << chunk, chunk_stdin, chunk_called, ref, ref_queue, idx >>

\* main is called as sys.exit(main()): use_colors keeps its default, True;
\* the notifier is constructed and the with block entered
Init ==
  /\ use_colors = TRUE
  /\ isatty \in BOOLEAN
  /\ pc = "with"
  /\ notifier = __init__(use_colors, isatty)
  /\ child = "none"
  /\ returncode = None
  /\ pipe = <<>>
  /\ written = <<>>
  /\ nfrags = 0
  /\ out = None
  /\ fed = <<>>
  /\ stream = <<>>
  /\ stdin_queue = <<>>
  /\ result = None
  /\ uncaught = ""
  /\ chunk = <<>>
  /\ chunk_stdin = None
  /\ chunk_called = FALSE
  /\ ref = __init__(use_colors, isatty)
  /\ ref_queue = <<>>
  /\ idx = 0

\* the except clause without the with statement's cleanup
Fault_without_exit(self, printed, err) ==
  /\ notifier' = self
  /\ stream' = stream \o printed \o <<UnexpectedMessage(Colored(use_colors, isatty), err)>>
  /\ result' = Some(1)
  /\ pc' = "returned"

\* an exception err reaches the with statement: __exit__ runs, the except
\* Exception clause prints it and main returns 1
Fault(self, printed, err) ==
  /\ notifier' = __exit__(self)
  /\ stream' = stream \o printed \o <<UnexpectedMessage(Colored(use_colors, isatty), err)>>
  /\ result' = Some(1)
  /\ pc' = "returned"

\* p = subprocess.Popen(cmd, stderr=subprocess.PIPE)
Popen ==
  /\ pc = "with"
  /\ pc' = "loop"
  /\ child' = "running"
  /\ UNCHANGED << use_colors, isatty, notifier, returncode, pipe, written, nfrags, out,
                  fed, stream, stdin_queue, result, uncaught, chunkVars >>

\* Popen raises: the encoder cannot be started
PopenFails ==
  /\ pc = "with"
  /\ Fault(notifier, <<>>, "FileNotFoundError")
  /\ UNCHANGED << use_colors, isatty, child, returncode, pipe, written, nfrags, out, fed,
                  stdin_queue, uncaught, chunkVars >>

\* the encoder writes a fragment to its diagnostic stream.  The pipe is a
\* FIFO, so a write behind unread bytes reads the same as the same write made
\* once they are read: writes are taken when the pipe is empty.
ChildWrite(frag) ==
  /\ pc = "loop"
  /\ child = "running"
  /\ pipe = <<>>
  /\ nfrags < MaxFrags
  /\ pipe' = frag
  /\ written' = written \o frag
  /\ nfrags' = nfrags + 1
  /\ UNCHANGED << use_colors, isatty, pc, notifier, child, returncode, out, fed, stream,
                  stdin_queue, result, uncaught, chunkVars >>

\* the encoder closes its diagnostic stream and keeps running
ChildClose ==
  /\ pc = "loop"
  /\ child = "running"
  /\ child' = "closed"
  /\ UNCHANGED << use_colors, isatty, pc, notifier, returncode, pipe, written, nfrags, out,
                  fed, stream, stdin_queue, result, uncaught, chunkVars >>

\* the encoder exits, at any time, unread bytes staying in the pipe
ChildExit ==
  /\ pc = "loop"
  /\ child \in {"running", "closed"}
  /\ child' = "exited"
  /\ UNCHANGED << use_colors, isatty, pc, notifier, returncode, pipe, written, nfrags, out,
                  fed, stream, stdin_queue, result, uncaught, chunkVars >>

\* out = p.stderr.read(1) returns a byte; notifier(out)
ReadByte ==
  /\ pc = "loop"
  /\ pipe # <<>>
  /\ out' = Some(<<Head(pipe)>>)
  /\ pipe' = Tail(pipe)
  /\ fed' = Append(fed, Head(pipe))
  /\ LET r == __call__(notifier, <<Head(pipe)>>, None, None)
     IN IF r.raised = ""
        THEN /\ notifier' = r.self
             /\ stream' = stream \o r.printed
             /\ UNCHANGED << pc, result >>
        ELSE Fault(r.self, r.printed, r.raised)
  /\ UNCHANGED << use_colors, isatty, child, returncode, written, nfrags, stdin_queue,
                  uncaught, chunkVars >>

\* out = p.stderr.read(1) returns b"" while p.poll() is None: the loop goes on
ReadEmpty ==
  /\ pc = "loop"
  /\ pipe = <<>>
  /\ child = "closed"
  /\ out' = Some(<<>>)
  /\ UNCHANGED << use_colors, isatty, pc, notifier, child, returncode, pipe, written,
                  nfrags, fed, stream, stdin_queue, result, uncaught, chunkVars >>

\* the break taken on the encoder's exit alone, whatever the read returned
BreaksOnExit == child = "exited"

\* if out == b"" and p.poll() != None: the read found the stream at its end and
\* the encoder has exited
LoopBreaks == pipe = <<>> /\ child = "exited"

\* out = p.stderr.read(1) returns b"" and p.poll() is not None (poll stores the
\* encoder's exit code in p.returncode): break, the with block is left
\* (__exit__), and the else clause of the try statement runs
LoopEnds(code) ==
  /\ pc = "loop"
  /\ LoopBreaks
  /\ out' = Some(<<>>)
  /\ returncode' = Some(code)
  /\ notifier' = __exit__(notifier)
  /\ LET lines == notifier.lines
         last == lines[Len(lines)]
     IN IF code = 0
        THEN /\ result' = Some(code) /\ pc' = "returned"
             /\ UNCHANGED << stream, uncaught >>
        ELSE IF lines = <<>>
        THEN /\ uncaught' = "IndexError" /\ pc' = "raised"
             /\ UNCHANGED << stream, result >>
        ELSE IF ~Decodable(last)
        THEN /\ uncaught' = "UnicodeDecodeError" /\ pc' = "raised"
             /\ UNCHANGED << stream, result >>
        ELSE /\ stream' = Append(stream, ErrorMessage(Colored(use_colors, isatty), decode(last)))
             /\ result' = Some(code) /\ pc' = "returned"
             /\ UNCHANGED uncaught
  /\ UNCHANGED << use_colors, isatty, child, pipe, written, nfrags, fed, stdin_queue,
                  chunkVars >>

\* KeyboardInterrupt inside the with block: __exit__ runs, the except
\* KeyboardInterrupt clause prints "Exiting." and main returns SIGINT + 128
Interrupt ==
  /\ pc \in {"with", "loop"}
  /\ notifier' = __exit__(notifier)
  /\ stream' = Append(stream, ExitingMessage(Colored(use_colors, isatty)))
  /\ result' = Some(SIGINT + 128)
  /\ pc' = "returned"
  /\ UNCHANGED << use_colors, isatty, child, returncode, pipe, written, nfrags, out, fed,
                  stdin_queue, uncaught, chunkVars >>

Next ==
  \/ Popen
  \/ PopenFails
  \/ \E frag \in Fragments : ChildWrite(frag)
  \/ ChildClose
  \/ ChildExit
  \/ ReadByte
  \/ ReadEmpty
  \/ \E code \in ExitCodes : LoopEnds(code)
  \/ Interrupt

Spec == Init /\ [][Next]_vars

\* the runs of Spec in which the encoder writes short fragments only: an empty
\* line, a byte that is no terminator, and a line on which get_source faults
LiveFragments == { <<LF>>, <<BadByte>>, BadSourceLine \o <<LF>> }

NextLive ==
  \/ Popen
  \/ PopenFails
  \/ \E frag \in LiveFragments : ChildWrite(frag)
  \/ ChildClose
  \/ ChildExit
  \/ ReadByte
  \/ ReadEmpty
  \/ \E code \in ExitCodes : LoopEnds(code)
  \/ Interrupt

\* main's thread keeps running its loop: a read returns as soon as the pipe holds
\* a byte or is at its end, and the test of line 278 follows each read
SpecLive ==
  /\ Init
  /\ [][NextLive]_vars
  /\ WF_vars(ReadByte)
  /\ WF_vars(\E code \in ExitCodes : LoopEnds(code))

\* -------------------------------------------------------------- SpecChunk
\* a client hands the same bytes to two notifiers: to notifier in one call, to
\* ref one byte per call
ChunkBytes == {"a", CR, LF}

\* the chunks: at least one byte (main hands over no empty read, line 280)
Chunks ==
  UNION {[1..k -> ChunkBytes] : k \in 1..MaxChunk}
    \cup {Marker, Marker \o <<"a">>, <<"a">> \o Marker, Marker \o <<LF>>}

\* what input() does when a prompt is answered
Replies == {Some(<<"y">>), None}

InitChunk ==
  /\ use_colors = TRUE
  /\ isatty \in BOOLEAN
  /\ pc = "client"
  /\ notifier = __init__(use_colors, isatty)
  /\ child = "none"
  /\ returncode = None
  /\ pipe = <<>>
  /\ written = <<>>
  /\ nfrags = 0
  /\ out = None
  /\ fed = <<>>
  /\ stream = <<>>
  /\ stdin_queue = <<>>
  /\ result = None
  /\ uncaught = ""
  /\ chunk \in Chunks
  /\ chunk_stdin \in {None, Some("queue")}
  /\ chunk_called = FALSE
  /\ ref = __init__(use_colors, isatty)
  /\ ref_queue = <<>>
  /\ idx = 0

\* notifier(chunk, stdin)
CallChunk(reply) ==
  /\ pc = "client"
  /\ ~chunk_called
  /\ chunk_called' = TRUE
  /\ LET r == __call__(notifier, chunk, chunk_stdin, reply)
     IN /\ notifier' = r.self
        /\ stream' = stream \o r.printed
        /\ stdin_queue' = stdin_queue \o r.put
        /\ uncaught' = r.raised
        /\ pc' = IF r.raised = "" THEN pc ELSE "raised"
  /\ UNCHANGED << use_colors, isatty, mainVars, chunk, chunk_stdin, ref, ref_queue, idx >>

\* ref(chunk[idx:idx+1], stdin)
CallByte(reply) ==
  /\ pc = "client"
  /\ idx < Len(chunk)
  /\ idx' = idx + 1
  /\ LET r == __call__(ref, <<chunk[idx + 1]>>, chunk_stdin, reply)
     IN /\ ref' = r.self
        /\ ref_queue' = ref_queue \o r.put
        /\ uncaught' = r.raised
        /\ pc' = IF r.raised = "" THEN pc ELSE "raised"
  /\ UNCHANGED << use_colors, isatty, mainVars, notifier, stream, stdin_queue, chunk,
                  chunk_stdin, chunk_called >>

NextChunk ==
  \/ \E reply \in Replies : CallChunk(reply)
  \/ \E reply \in Replies : CallByte(reply)

SpecChunk == InitChunk /\ [][NextChunk]_vars

\* ------------------------------------------------------------ SpecSeconds
\* one timestamp HH:MM:SS.ff handed to the duration extractor and to progress
MaxField == 1

\* the values of a two-digit field: the lowest and the highest ones
FieldValues == (0..MaxField) \cup ((99 - MaxField)..99)

\* the two digits \d{2} of a field
TwoDigits(v) ==
  << CHOOSE c \in Digits : DigitVal(c) = v \div 10,
     CHOOSE c \in Digits : DigitVal(c) = v % 10 >>

\* (\d{2}):(\d{2}):(\d{2})\.\d{2}
Timestamp(hh, mm, ss, ff) ==
  TwoDigits(hh) \o <<":">> \o TwoDigits(mm) \o <<":">> \o TwoDigits(ss)
    \o <<".">> \o TwoDigits(ff)

\* the literal prefixes "Duration: " and "time=" of the two patterns
DurationPrefix == SubSeq(_DURATION_RX, 1, 10)

ProgressPrefix == SubSeq(_PROGRESS_RX, 1, 5)

InitSeconds ==
  /\ use_colors = TRUE
  /\ isatty \in BOOLEAN
  /\ pc = "extract"
  /\ notifier = __init__(use_colors, isatty)
  /\ child = "none"
  /\ returncode = None
  /\ pipe = <<>>
  /\ written = <<>>
  /\ nfrags = 0
  /\ out = None
  /\ fed = <<>>
  /\ stream = <<>>
  /\ stdin_queue = <<>>
  /\ result = None
  /\ uncaught = ""
  /\ chunk \in {Timestamp(hh, mm, ss, ff) : hh \in FieldValues, mm \in FieldValues,
                                            ss \in FieldValues, ff \in FieldValues}
  /\ chunk_stdin = None
  /\ chunk_called = FALSE
  /\ ref = __init__(use_colors, isatty)
  /\ ref_queue = <<>>
  /\ idx = 0

\* self.duration = self.get_duration(line), line being "Duration: " + chunk
ExtractDuration ==
  /\ pc = "extract"
  /\ ~chunk_called
  /\ chunk_called' = TRUE
  /\ notifier' = [notifier EXCEPT !.duration = get_duration(DurationPrefix \o chunk)]
  /\ UNCHANGED << use_colors, isatty, pc, mainVars, stream, stdin_queue, uncaught,
                  chunk, chunk_stdin, ref, ref_queue, idx >>

\* ref.progress(line), line being "time=" + chunk, on a notifier without fps
ExtractPosition ==
  /\ pc = "extract"
  /\ idx = 0
  /\ idx' = 1
  /\ ref' = progress(ref, ProgressPrefix \o chunk)
  /\ UNCHANGED << use_colors, isatty, pc, mainVars, notifier, stream, stdin_queue,
                  uncaught, chunk, chunk_stdin, chunk_called, ref_queue >>

NextSeconds ==
  \/ ExtractDuration
  \/ ExtractPosition

SpecSeconds == InitSeconds /\ [][NextSeconds]_vars

\* ------------------------------------------------------------- SpecColour
\* the same bytes fed, one per call, to a notifier with colours (notifier) and to
\* one made with use_colors=False (ref)
InitColour ==
  /\ use_colors = TRUE
  /\ isatty = TRUE
  /\ pc = "pair"
  /\ notifier = __init__(TRUE, isatty)
  /\ child = "none"
  /\ returncode = None
  /\ pipe = <<>>
  /\ written = <<>>
  /\ nfrags = 0
  /\ out = None
  /\ fed = <<>>
  /\ stream = <<>>
  /\ stdin_queue = <<>>
  /\ result = None
  /\ uncaught = ""
  /\ chunk = <<>>
  /\ chunk_stdin = None
  /\ chunk_called = FALSE
  /\ ref = __init__(FALSE, isatty)
  /\ ref_queue = <<>>
  /\ idx = 0

\* the next bytes of the input
PairWrite(frag) ==
  /\ pc = "pair"
  /\ pipe = <<>>
  /\ nfrags < MaxFrags
  /\ pipe' = frag
  /\ written' = written \o frag
  /\ nfrags' = nfrags + 1
  /\ UNCHANGED << use_colors, isatty, pc, notifier, child, returncode, out, fed, stream,
                  stdin_queue, result, uncaught, chunkVars >>

\* notifier(byte) and ref(byte)
PairFeed ==
  /\ pc = "pair"
  /\ pipe # <<>>
  /\ pipe' = Tail(pipe)
  /\ fed' = Append(fed, Head(pipe))
  /\ LET r == __call__(notifier, <<Head(pipe)>>, None, None)
         q == __call__(ref, <<Head(pipe)>>, None, None)
     IN /\ notifier' = r.self
        /\ ref' = q.self
        /\ stream' = stream \o r.printed
        /\ uncaught' = IF r.raised # "" THEN r.raised ELSE q.raised
        /\ pc' = IF r.raised = "" /\ q.raised = "" THEN pc ELSE "raised"
  /\ UNCHANGED << use_colors, isatty, child, returncode, written, nfrags, out,
                  stdin_queue, result, chunk, chunk_stdin, chunk_called, ref_queue, idx >>

NextColour ==
  \/ \E frag \in Fragments : PairWrite(frag)
  \/ PairFeed

SpecColour == InitColour /\ [][NextColour]_vars

\* ------------------------------------------------------------- properties
Last(s) == s[Len(s)]

\* number of close calls made on the bar
Closes(self) == IF self.pbar = None THEN 0 ELSE self.pbar[1].closed

\* the history lines that end with the prompt marker
PromptLines(lines) == {i \in DOMAIN lines : EndsWith(lines[i], Marker)}

\* the least index of a set of line numbers, 0 when it is empty
First(S) ==
  IF S = {} THEN 0 ELSE CHOOSE x \in S : \A j \in S : x <= j

MatchesDuration(line) == Search(line, _DURATION_RX) # 0
MatchesFps(line) == get_fps(line) # None
MatchesSource(line) == SourceMatch(line)[1] # 0
MatchesProgress(line) == Search(line, _PROGRESS_RX) # 0

\* C1: chunking independence: once the chunk was handed to notifier in one call
\* and to ref one byte per call, both hold the same completed lines and the same
\* live buffer.
C1_ChunkingIndependence ==
  (chunk_called /\ idx = Len(chunk) /\ pc = "client") =>
     /\ notifier.lines = ref.lines
     /\ notifier.line_acc = ref.line_acc

\* C2: first match wins: while a run streams, each of duration, source and fps is
\* the value of the first line of the history that matches its pattern (None when
\* no line matches), and the bar was updated once for every line of the history
\* that matches the position pattern.
C2_FirstMatchLatched ==
  pc = "loop" =>
    LET ls == notifier.lines
        di == First({i \in DOMAIN ls : MatchesDuration(ls[i])})
        si == First({i \in DOMAIN ls : MatchesSource(ls[i])})
        fi == First({i \in DOMAIN ls : MatchesFps(ls[i])})
        updates == IF notifier.pbar = None THEN <<>> ELSE notifier.pbar[1].updates
    IN /\ notifier.duration = IF di = 0 THEN None ELSE get_duration(ls[di])
       /\ notifier.source = IF si = 0 THEN None ELSE get_source(ls[si]).value
       /\ notifier.fps = IF fi = 0 THEN None ELSE get_fps(ls[fi])
       /\ Len(updates) = Cardinality({i \in DOMAIN ls : MatchesProgress(ls[i])})

\* C3: monotonic progress: every delta passed to the bar's update is >= 0, so the
\* bar's position never decreases.
C3_MonotonicProgress ==
  notifier.pbar # None =>
    \A k \in DOMAIN notifier.pbar[1].updates : notifier.pbar[1].updates[k] >= 0

\* C4: scenario A: after the lines "Duration: 00:01:40.00", "from 'clip.mp4':" and
\* "frame=  10 fps= 25 ... time=00:00:10.00 ..." the bar exists with unit frames,
\* total 2500 (100 s at 25 fps) and a first delta of 250.
C4_ScenarioA ==
  notifier.lines = <<DurationLine, SourceLine, FrameLine>> =>
    /\ notifier.pbar # None
    /\ notifier.pbar[1].unit = " frames"
    /\ notifier.pbar[1].total = Some(2500)
    /\ notifier.pbar[1].updates = <<250>>

\* scenario B: the header lines and a position of 10 s, no fps line
C5_Witness ==
  /\ notifier.lines = <<DurationLine, SourceLine, TimeLine>>
  /\ notifier.fps = None
  /\ notifier.pbar # None
  /\ notifier.pbar[1].unit = " seconds"
  /\ notifier.pbar[1].total = Some(100)
  /\ notifier.pbar[1].updates = <<10>>

\* the seconds a line's first "time=HH:MM:SS.ff" stands for, digit by digit
ElapsedOf(line) ==
  LET i == Search(line, _PROGRESS_RX)
  IN 36000 * DigitVal(line[i + 5]) + 3600 * DigitVal(line[i + 6])
       + 600 * DigitVal(line[i + 8]) + 60 * DigitVal(line[i + 9])
       + 10 * DigitVal(line[i + 11]) + DigitVal(line[i + 12])

\* C5: seconds-unit bar creation: a step that creates the bar while no fps is
\* latched creates it with unit seconds and with the latched duration as its
\* total (None when no duration is latched), and its first delta is the elapsed
\* seconds of the line; for a duration of 100 s and a position of 10 s the
\* total is 100 and the delta 10.
C5_SecondsUnitBar ==
  [][ (notifier.pbar = None /\ notifier'.pbar # None /\ notifier'.fps = None) =>
        LET bar == notifier'.pbar[1]
        IN /\ bar.unit = " seconds"
           /\ bar.total = notifier'.duration
           /\ bar.updates = <<ElapsedOf(Last(notifier'.lines))>>
           /\ bar.n = ElapsedOf(Last(notifier'.lines))
           /\ (notifier'.lines = <<DurationLine, SourceLine, TimeLine>> =>
                 bar.total = Some(100) /\ bar.updates = <<10>>) ]_vars

C7_NormalCompletion ==
  returncode # None =>
    /\ result = returncode
    /\ returncode[1] # 0 =>
         /\ stream # <<>>
         /\ Last(stream) = ErrorMessage(Colored(use_colors, isatty), Last(notifier.lines))

\* C8 as stated: a run ended by an interrupt has returned 128 + SIGINT, printed
\* "Exiting." last, and closed the bar exactly once.
C8_InterruptClosesOnce ==
  (result = Some(SIGINT + 128) /\ child # "none") =>
    /\ pc = "returned"
    /\ Last(stream) = ExitingMessage(Colored(use_colors, isatty))
    /\ Closes(notifier) = 1

\* an interrupt after two completed lines, the bar existing: closed once
C8_Witness ==
  /\ result = Some(SIGINT + 128)
  /\ Len(notifier.lines) >= 2
  /\ notifier.pbar # None
  /\ notifier.pbar[1].closed = 1

\* C8 (amended): an interrupt while streaming makes main return 128 + SIGINT
\* after printing "Exiting.", with exactly one close call on the bar if the bar
\* had been created and no close call if it had not.
C8_InterruptReleases ==
  [][ (pc = "loop" /\ result' = Some(SIGINT + 128)) =>
        /\ pc' = "returned"
        /\ uncaught' = ""
        /\ stream' = Append(stream, ExitingMessage(Colored(use_colors, isatty)))
        /\ Closes(notifier') = IF notifier.pbar # None THEN 1 ELSE 0
        /\ notifier'.pbar = None <=> notifier.pbar = None ]_vars

\* a run ended by a fault after the bar was created: closed once
C9_Witness ==
  /\ pc = "returned"
  /\ result = Some(1)
  /\ returncode = None
  /\ notifier.pbar # None
  /\ notifier.pbar[1].closed = 1
  /\ notifier.pbar[1].updates # <<>>

\* C9: scoped release: no close call is made while main is inside the with block
\* (so no update follows a close), and once main has ended, by any path, the bar
\* was closed exactly once if it was created and never if it was not.
C9_ScopedRelease ==
  /\ pc \in {"with", "loop"} => Closes(notifier) = 0
  /\ pc \in {"returned", "raised"} =>
       Closes(notifier) = IF notifier.tqdm_calls > 0 THEN 1 ELSE 0
  /\ notifier.tqdm_calls > 0 <=> notifier.pbar # None

\* the faults a run can meet
Faults == {"FileNotFoundError", "UnicodeDecodeError", "IndexError"}

\* C10: unexpected fault: no exception leaves main, and a run ended by a fault
\* has printed the fault's message last and returned 1.
C10_FaultsCaught ==
  /\ uncaught = ""
  /\ pc # "raised"
  /\ (pc = "returned" /\ returncode = None /\ result # Some(SIGINT + 128)) =>
       /\ result = Some(1)
       /\ \E err \in Faults :
            Last(stream) = UnexpectedMessage(Colored(use_colors, isatty), err)

\* C11: unit consistency: every position update leaves the bar with a unit label
\* that is the unit of its tracked position (frames when the update was computed
\* with a latched fps, seconds otherwise) and with a total computed in that unit.
C11_UnitConsistent ==
  [][ (notifier'.pbar # None /\ notifier'.pbar # notifier.pbar /\ pc' = "loop") =>
        /\ notifier'.pbar[1].unit = progress_unit(notifier')
        /\ notifier'.pbar[1].total = progress_total(notifier') ]_vars

\* C13: a read that completes a line by prompt detection leaves the notifier as a
\* terminator fed behind the same buffer would: the line is in the history and the
\* duration, source and fps extractors and progress were applied to it.
C13_PromptLikeTerminator ==
  [][ (/\ pc = "loop"
       /\ pipe # <<>>
       /\ fed' # fed
       /\ pc' = "loop"
       /\ EndsWith(notifier.line_acc \o <<Head(pipe)>>, Marker)) =>
        notifier' =
          __call__([notifier EXCEPT !.line_acc = @ \o <<Head(pipe)>>], <<LF>>, None, None).self
     ]_vars

\* C14: lazy single bar creation: while a run streams, tqdm was called at most
\* once, and the bar exists exactly when some line of the history matches the
\* position pattern.
C14_LazySingleBar ==
  pc = "loop" =>
    /\ notifier.tqdm_calls <= 1
    /\ notifier.pbar # None <=>
         \E i \in DOMAIN notifier.lines : MatchesProgress(notifier.lines[i])

\* C14 on the lines a terminator completed (those that do not end with the
\* marker): holds, the bar exists exactly when one of them matches
LazySingleBarOnTerminated ==
  pc = "loop" =>
    /\ notifier.tqdm_calls <= 1
    /\ notifier.pbar # None <=>
         \E i \in DOMAIN notifier.lines \ PromptLines(notifier.lines) :
            MatchesProgress(notifier.lines[i])

\* the seconds a timestamp HH:MM:SS.ff stands for, digit by digit: the fraction
\* (bytes 10 and 11) has no part in it
SecondsOf(stamp) ==
  36000 * DigitVal(stamp[1]) + 3600 * DigitVal(stamp[2])
    + 600 * DigitVal(stamp[4]) + 60 * DigitVal(stamp[5])
    + 10 * DigitVal(stamp[7]) + DigitVal(stamp[8])

\* the seconds of 99:99:99
MaxSeconds == (99 * 60 + 99) * 60 + 99

\* C12 witness: both extractors were applied to 99:99:99.ff, ff not 00
C12_Witness ==
  /\ chunk_called
  /\ idx = 1
  /\ SubSeq(chunk, 1, 8) = SubSeq(Timestamp(99, 99, 99, 0), 1, 8)
  /\ SubSeq(chunk, 10, 11) # <<"0", "0">>
  /\ notifier.duration = Some(MaxSeconds)
  /\ ref.pbar # None
  /\ ref.pbar[1].n = MaxSeconds

\* C12: seconds conversion: for two-digit HH, MM and SS, get_duration applied to
\* "Duration: HH:MM:SS.ff" yields (HH*60+MM)*60+SS, and progress applied to
\* "time=HH:MM:SS.ff" (no fps) moves a new bar to that same number, whatever ff.
C12_SecondsConversion ==
  /\ chunk_called => notifier.duration = Some(SecondsOf(chunk))
  /\ idx = 1 => /\ ref.pbar # None
                /\ ref.pbar[1].n = SecondsOf(chunk)
                /\ ref.pbar[1].updates = <<SecondsOf(chunk)>>

\* C15 as stated: a read of a non-terminator byte appends it to the buffer and
\* leaves the history unchanged; a read of \r or \n appends the buffer to the
\* history as one line and empties the buffer.
C15_AccumulatorStep ==
  [][ fed' # fed =>
        IF Last(fed') \in {CR, LF}
        THEN /\ notifier'.lines = Append(notifier.lines, notifier.line_acc)
             /\ notifier'.line_acc = <<>>
        ELSE /\ notifier'.line_acc = Append(notifier.line_acc, Last(fed'))
             /\ notifier'.lines = notifier.lines ]_vars

\* C15 witness: a terminator was the first byte, a second one followed it, and
\* the bytes read after them ended in the marker
C15_Witness ==
  /\ pc = "loop"
  /\ Len(notifier.lines) = 3
  /\ notifier.lines[1] = <<>>
  /\ notifier.lines[2] = <<>>
  /\ PromptLines(notifier.lines) = {3}
  /\ notifier.line_acc = <<>>

\* C15 amended: a read of a non-terminator byte appends it to the buffer and leaves
\* the history unchanged, unless the buffer then ends with the marker and decodes:
\* then the buffer, that byte included, becomes one new line of the history and
\* the buffer is emptied.  A read of \r or \n appends the buffer to the history
\* as one line and empties the buffer, be it the first byte or one of a row.
C15_AccumulatorStepOrPrompt ==
  [][ fed' # fed =>
        LET acc == Append(notifier.line_acc, Last(fed'))
        IN IF Last(fed') \in {CR, LF}
           THEN /\ notifier'.lines = Append(notifier.lines, notifier.line_acc)
                /\ notifier'.line_acc = <<>>
           ELSE IF EndsWith(acc, Marker) /\ Decodable(acc)
                THEN /\ notifier'.lines = Append(notifier.lines, acc)
                     /\ notifier'.line_acc = <<>>
                ELSE /\ notifier'.line_acc = acc
                     /\ notifier'.lines = notifier.lines ]_vars

\* C16 witness: the loop ended by its break after the encoder wrote three
\* fragments, closed its stream and exited
C16_Witness ==
  /\ returncode # None
  /\ nfrags = MaxFrags
  /\ fed = written
  /\ out = Some(<<>>)

\* C16: read loop termination: the bytes fed and the bytes still in the pipe are
\* at every moment the bytes written, in order; once the loop has ended by its
\* break the last read returned b"", the encoder has exited and every byte
\* written was fed; and once the encoder has exited main leaves the loop.
C16_LoopTermination ==
  /\ [](fed \o pipe = written)
  /\ [](returncode # None =>
         /\ out = Some(<<>>)
         /\ child = "exited"
         /\ pipe = <<>>
         /\ fed = written)
  /\ (child = "exited") ~> (pc # "loop")

\* the numeric state of a notifier: its facts and what its bar was created with
\* and told
Numeric(self) ==
  [ lines |-> self.lines,
    line_acc |-> self.line_acc,
    duration |-> self.duration,
    source |-> self.source,
    fps |-> self.fps,
    tqdm_calls |-> self.tqdm_calls,
    bar |-> IF self.pbar = None THEN None
            ELSE Some([ total |-> self.pbar[1].total,
                        unit |-> self.pbar[1].unit,
                        n |-> self.pbar[1].n,
                        updates |-> self.pbar[1].updates ]) ]

\* C17 witness: both bars stand at 5 of 100 after two updates; the coloured
\* notifier's band is bright red, and the two bars differ in colour
C17_Witness ==
  /\ pc = "pair"
  /\ notifier.pbar # None
  /\ ref.pbar # None
  /\ notifier.pbar[1].total = Some(100)
  /\ notifier.pbar[1].updates = <<10, -5>>
  /\ ref.pbar[1].updates = <<10, -5>>
  /\ _get_progress_color(notifier, notifier.pbar[1].n, 100) = <<BRIGHT_RED>>
  /\ _get_progress_color(ref, ref.pbar[1].n, 100) = <<>>
  /\ notifier.pbar[1].colour # ref.pbar[1].colour

\* C17: colour non-interference: fed the same byte, the notifier with colours and
\* the one without either both raise the same exception or both return, and
\* they are left with the same history, buffer, duration, source and fps, and
\* with bars of the same total, unit, position and sequence of deltas.
C17_ColourNonInterference ==
  [][ fed' # fed =>
        /\ __call__(notifier, <<Last(fed')>>, None, None).raised
             = __call__(ref, <<Last(fed')>>, None, None).raised
        /\ Numeric(notifier') = Numeric(ref') ]_vars

\* the lines of a history, one behind the other
RECURSIVE Flatten(_)
Flatten(lines) ==
  IF lines = <<>> THEN <<>> ELSE Head(lines) \o Flatten(Tail(lines))

\* a byte sequence without its \r and \n
RECURSIVE Strip(_)
Strip(bytes) ==
  IF bytes = <<>> THEN <<>>
  ELSE IF Head(bytes) \in {CR, LF} THEN Strip(Tail(bytes))
  ELSE <<Head(bytes)>> \o Strip(Tail(bytes))

\* what a notifier holds of the bytes fed so far; returned tells whether the
\* last feed returned
Conserved(self, input, returned) ==
  /\ Flatten(self.lines) \o self.line_acc = Strip(input)
  /\ \A i \in DOMAIN self.line_acc : self.line_acc[i] \notin {CR, LF}
  /\ returned => ~EndsWith(self.line_acc, Marker)

\* C18 witness: the bytes fed held terminators and a prompt: the history has a
\* prompt line and another line, and the buffer is not empty
C18_Witness ==
  /\ pc = "pair"
  /\ PromptLines(notifier.lines) # {}
  /\ PromptLines(notifier.lines) # DOMAIN notifier.lines
  /\ notifier.line_acc # <<>>
  /\ Len(fed) > Len(Strip(fed))

\* C18: no byte is lost: after every single-byte feed, prompts included, the
\* lines of the history followed by the buffer are the bytes fed so far without
\* their \r and \n; the buffer holds no terminator and, the feed having
\* returned, does not end with the marker; and the history before the feed is
\* a prefix of the history after it.
C18_NoByteLost ==
  [][ fed' # fed =>
        /\ Conserved(notifier', fed', pc' = "pair")
        /\ Conserved(ref', fed', pc' = "pair")
        /\ Len(notifier'.lines) >= Len(notifier.lines)
        /\ SubSeq(notifier'.lines, 1, Len(notifier.lines)) = notifier.lines
        /\ Len(ref'.lines) >= Len(ref.lines)
        /\ SubSeq(ref'.lines, 1, Len(ref.lines)) = ref.lines ]_vars

\* the number of updates a notifier's bar was told
Updates(self) == IF self.pbar = None THEN 0 ELSE Len(self.pbar[1].updates)

\* the position the line completed last stands for: its elapsed seconds, times
\* the fps if one is latched
PositionOf(self) ==
  IF self.fps # None
  THEN ElapsedOf(Last(self.lines)) * self.fps[1]
  ELSE ElapsedOf(Last(self.lines))

\* C19 witness: a bar updated to 10 seconds before the fps was latched stands at
\* 5 seconds times 30 fps after the update that followed
C19_Witness ==
  /\ pc = "pair"
  /\ notifier.fps = Some(30)
  /\ notifier.pbar # None
  /\ notifier.pbar[1].updates = <<10, 140>>
  /\ notifier.pbar[1].n = 150

\* C19: position tracking: after every update the bar's position is the elapsed
\* seconds of the line just completed, multiplied by the fps if an fps is latched
\* at that update, whatever the earlier updates were.
C19_PositionTracked ==
  [][ /\ Updates(notifier') > Updates(notifier) =>
           notifier'.pbar[1].n = PositionOf(notifier')
      /\ Updates(ref') > Updates(ref) =>
           ref'.pbar[1].n = PositionOf(ref') ]_vars
====
